---- MODULE Spec2Model ----
(***************************************************************************)
(* The command loop of the Stockfish chess CLI (src/main.py): the global   *)
(* moves_history, the engine's current position, and one action for each   *)
(* branch of main's while loop.                                            *)
(*                                                                         *)
(* The engine is an external process.  Its rules are abstracted by a small *)
(* two-player game with the same interface the program uses: a position    *)
(* has a side to move, the legal moves depend on the position, a move      *)
(* leads to a new position with the other side to move, and there are      *)
(* positions without legal moves (game over).                              *)
(***************************************************************************)
EXTENDS Integers, Sequences, FiniteSets, TLC

\* ---------------------------------------------------------------- bounds
\* Size of the abstract game: tokens on the board in the starting position.
StartPile == 4
\* Largest move of the abstract game (a move takes 1..MaxTake tokens).
MaxTake == 2

\* ------------------------------------------------------ the engine (abstract)
\* Python's None: "no best move", and the ms default of engine_reply.
None == 0

\* The well-formed moves of the game.
Moves == 1 .. MaxTake

\* What the user can type that is not a command keyword: a well-formed move
\* (legal or not in the current position) or text that is never a move.
UciInputs == 1 .. (MaxTake + 1)

Other(side) == IF side = "w" THEN "b" ELSE "w"

\* The standard starting position: White moves first.
StartPos == [side |-> "w", pile |-> StartPile]

Positions == [side : {"w", "b"}, pile : 0 .. StartPile]

\* The moves the engine accepts in position p.
Legal(p) == {m \in Moves : m <= p.pile}

\* engine.is_move_correct(move)
is_move_correct(p, m) == m \in Legal(p)

\* One move applied to the engine's position (an illegal one is ignored).
make_move(p, m) ==
  IF m \in Legal(p) THEN [side |-> Other(p.side), pile |-> p.pile - m] ELSE p

\* engine.make_moves_from_current_position(moves)
RECURSIVE make_moves_from_current_position(_, _)
make_moves_from_current_position(p, moves) ==
  IF moves = <<>> THEN p
  ELSE make_moves_from_current_position(make_move(p, Head(moves)), Tail(moves))

\* engine.set_position(moves): the position after moves from the start.
set_position(moves) == make_moves_from_current_position(StartPos, moves)

\* engine.get_best_move() / get_best_move_time(ms): the answers the engine
\* may give in position p; None exactly when there is no legal move.
get_best_move(p) == IF Legal(p) = {} THEN {None} ELSE Legal(p)

\* The engine calls main makes (it never passes ms, so never asks for
\* get_best_move_time).
EngineCalls ==
  {"is_move_correct", "make_moves_from_current_position", "set_position",
   "get_best_move", "get_fen_position", "get_board_visual", "get_evaluation"}

\* The engine calls the program wraps in try/except.
GuardedCalls == {"get_board_visual", "get_evaluation"}

\* How an engine call ends: it returns, it raises an exception of class
\* Exception (the engine process died, the build lacks the feature), or the
\* user interrupts it (KeyboardInterrupt, which "except Exception" lets pass).
Outcomes == {"ok", "Exception", "KeyboardInterrupt"}

\* The outcomes of the engine calls during one cycle of the loop.  Nothing
\* catches a KeyboardInterrupt raised inside the cycle, so a cycle sees at most
\* one.
Faults ==
  {F \in [EngineCalls -> Outcomes] :
     Cardinality({c \in EngineCalls : F[c] = "KeyboardInterrupt"}) <= 1}

\* Every engine call returns.
NoFaults == [c \in EngineCalls |-> "ok"]

\* The engine process is alive and nobody interrupts: only the calls the
\* program guards fail, with an Exception.
LiveFaults ==
  {F \in Faults :
     \A c \in EngineCalls :
       F[c] = "ok" \/ (c \in GuardedCalls /\ F[c] = "Exception")}

\* Call c raises under F.
Raises(F, c) == F[c] # "ok"

\* Call c raises under F something that "except Exception" catches.
Caught(F, c) == F[c] = "Exception"

\* ------------------------------------------------------------------ state
VARIABLES
  moves_history,  \* the module-level list of applied moves
  engine,         \* the engine's current position
  pc,             \* "start", "prompt" (waiting in input()), "exited", "crashed"
  cmd,            \* the input of the last cycle, after strip().lower()
  uci_move,       \* the text of the last cycle when it is not a keyword
  errors,         \* the engine calls that raised during the last cycle, each
                  \* with what it raised
  pre,            \* moves_history and engine when the last input was read
  out,            \* what the last cycle printed
  engine_log,     \* the engine calls the last cycle made, in order
  call_apply,     \* the last cycle's call of apply_move_uci
  call_undo,      \* the last cycle's call of undo_last_halfmove
  call_reply      \* the last cycle's call of engine_reply

vars == <<moves_history, engine, pc, cmd, uci_move, errors, pre, out,
          engine_log, call_apply, call_undo, call_reply>>

\* ------------------------------------------------- results of the functions
\* A function that returned: ok is a bool result, mv a move-or-None result.
Ret(h, p, ok, mv, log) ==
  [h |-> h, p |-> p, ok |-> ok, mv |-> mv, raised |-> FALSE, log |-> log]

\* A function left by an exception of an engine call.
Raise(h, p, log) ==
  [h |-> h, p |-> p, ok |-> FALSE, mv |-> None, raised |-> TRUE, log |-> log]

\* The record kept of one function call: its argument, the state before (h0,
\* p0) and after (h1, p1), its result and the engine calls it made.
Call(arg, h, p, r) ==
  [called |-> TRUE, arg |-> arg, h0 |-> h, p0 |-> p, h1 |-> r.h, p1 |-> r.p,
   ok |-> r.ok, mv |-> r.mv, raised |-> r.raised, log |-> r.log]

\* No call of the function in this cycle.
NoCall ==
  [called |-> FALSE, arg |-> None, h0 |-> <<>>, p0 |-> StartPos, h1 |-> <<>>,
   p1 |-> StartPos, ok |-> FALSE, mv |-> None, raised |-> FALSE, log |-> <<>>]

\* ------------------------------------------------------------ the functions
\* Variant of show_board without the try/except around get_board_visual.
show_board_unguarded(F) ==
  IF ~Raises(F, "get_board_visual")
  THEN [out |-> <<"board">>, raised |-> FALSE, log |-> <<"get_board_visual">>]
  ELSE [out |-> <<>>, raised |-> TRUE, log |-> <<"get_board_visual">>]

\* show_board(): the board, or the FEN when get_board_visual raises; the
\* fallback itself is not guarded.
show_board(F) ==
  IF ~Raises(F, "get_board_visual")
  THEN [out |-> <<"board">>, raised |-> FALSE, log |-> <<"get_board_visual">>]
  ELSE IF ~Caught(F, "get_board_visual")
  THEN [out |-> <<>>, raised |-> TRUE, log |-> <<"get_board_visual">>]
  ELSE IF ~Raises(F, "get_fen_position")
  THEN [out |-> <<"Current FEN:">>, raised |-> FALSE,
        log |-> <<"get_board_visual", "get_fen_position">>]
  ELSE [out |-> <<>>, raised |-> TRUE,
        log |-> <<"get_board_visual", "get_fen_position">>]

\* Variant of apply_move_uci that applies the move without asking the engine
\* whether it is legal.
apply_move_uci_unchecked(h, p, m, F) ==
  IF Raises(F, "make_moves_from_current_position")
  THEN Raise(h, p, <<"make_moves_from_current_position">>)
  ELSE Ret(Append(h, m), make_moves_from_current_position(p, <<m>>), TRUE, None,
           <<"make_moves_from_current_position">>)

\* Variant of apply_move_uci that records a legal move in the history and
\* never sends it to the engine.
apply_move_uci_history_only(h, p, m, F) ==
  IF Raises(F, "is_move_correct") THEN Raise(h, p, <<"is_move_correct">>)
  ELSE IF ~is_move_correct(p, m)
  THEN Ret(h, p, FALSE, None, <<"is_move_correct">>)
  ELSE Ret(Append(h, m), p, TRUE, None, <<"is_move_correct">>)

\* apply_move_uci(uci_move) on history h and engine position p.
apply_move_uci(h, p, m, F) ==
  IF Raises(F, "is_move_correct") THEN Raise(h, p, <<"is_move_correct">>)
  ELSE IF ~is_move_correct(p, m)
  THEN Ret(h, p, FALSE, None, <<"is_move_correct">>)
  ELSE IF Raises(F, "make_moves_from_current_position")
  THEN Raise(h, p, <<"is_move_correct", "make_moves_from_current_position">>)
  ELSE Ret(Append(h, m), make_moves_from_current_position(p, <<m>>), TRUE, None,
           <<"is_move_correct", "make_moves_from_current_position">>)

\* Variant of undo_last_halfmove that pops the history and leaves the engine
\* where it was.
undo_without_set_position(h, p, F) ==
  IF h = <<>> THEN Ret(h, p, FALSE, None, <<>>)
  ELSE Ret(SubSeq(h, 1, Len(h) - 1), p, TRUE, None, <<>>)

\* Variant of undo_last_halfmove that pops the first move (pop(0)).
undo_pops_first(h, p, F) ==
  IF h = <<>> THEN Ret(h, p, FALSE, None, <<>>)
  ELSE IF Raises(F, "set_position") THEN Raise(Tail(h), p, <<"set_position">>)
  ELSE Ret(Tail(h), set_position(Tail(h)), TRUE, None, <<"set_position">>)

\* undo_last_halfmove(): pop, then replay what is left from the start.
undo_last_halfmove(h, p, F) ==
  IF h = <<>> THEN Ret(h, p, FALSE, None, <<>>)
  ELSE LET rest == SubSeq(h, 1, Len(h) - 1)
       IN IF Raises(F, "set_position") THEN Raise(rest, p, <<"set_position">>)
          ELSE Ret(rest, set_position(rest), TRUE, None, <<"set_position">>)

\* Variant of engine_reply without the "best is None" test.
engine_reply_appends_none(h, p, ms, best, F) ==
  LET query == IF ms # None THEN "get_best_move_time" ELSE "get_best_move"
  IN IF Raises(F, query) THEN Raise(h, p, <<query>>)
     ELSE IF Raises(F, "make_moves_from_current_position")
     THEN Raise(h, p, <<query, "make_moves_from_current_position">>)
     ELSE Ret(Append(h, best), make_moves_from_current_position(p, <<best>>),
              TRUE, best, <<query, "make_moves_from_current_position">>)

\* engine_reply(ms): best is the engine's answer to the best-move query.
engine_reply(h, p, ms, best, F) ==
  LET query == IF ms # None THEN "get_best_move_time" ELSE "get_best_move"
  IN IF Raises(F, query) THEN Raise(h, p, <<query>>)
     ELSE IF best = None THEN Ret(h, p, FALSE, None, <<query>>)
     ELSE IF Raises(F, "make_moves_from_current_position")
     THEN Raise(h, p, <<query, "make_moves_from_current_position">>)
     ELSE Ret(Append(h, best), make_moves_from_current_position(p, <<best>>),
              TRUE, best, <<query, "make_moves_from_current_position">>)

\* ------------------------------------------------- the branches of main's loop
\* What one cycle of the loop leaves behind.
Cycle(h, p, raised, o, log, a, u, r) ==
  [h |-> h, p |-> p, pc |-> IF raised THEN "crashed" ELSE "prompt", out |-> o,
   log |-> log, apply |-> a, undo |-> u, reply |-> r]

\* cmd == "help"
main_help(h, p, F) ==
  LET s == show_board(F)
  IN Cycle(h, p, s.raised, <<"Commands:">> \o s.out, s.log, NoCall, NoCall, NoCall)

\* Variant of the "new" branch that resets the engine and forgets to clear
\* moves_history.
main_new_keeps_history(h, p, F) ==
  IF Raises(F, "set_position")
  THEN Cycle(h, p, TRUE, <<>>, <<"set_position">>, NoCall, NoCall, NoCall)
  ELSE LET s == show_board(F)
       IN Cycle(h, set_position(<<>>), s.raised, s.out,
                <<"set_position">> \o s.log, NoCall, NoCall, NoCall)

\* cmd == "new"
main_new(h, p, F) ==
  IF Raises(F, "set_position")
  THEN Cycle(<<>>, p, TRUE, <<>>, <<"set_position">>, NoCall, NoCall, NoCall)
  ELSE LET s == show_board(F)
       IN Cycle(<<>>, set_position(<<>>), s.raised, s.out,
                <<"set_position">> \o s.log, NoCall, NoCall, NoCall)

\* cmd == "undo"
main_undo(h, p, F) ==
  LET u == undo_last_halfmove(h, p, F)
      c == Call(None, h, p, u)
  IN IF u.raised THEN Cycle(u.h, u.p, TRUE, <<>>, u.log, NoCall, c, NoCall)
     ELSE IF u.ok
     THEN LET s == show_board(F)
          IN Cycle(u.h, u.p, s.raised, s.out, u.log \o s.log, NoCall, c, NoCall)
     ELSE Cycle(u.h, u.p, FALSE, <<"Nothing to undo.">>, u.log, NoCall, c, NoCall)

\* cmd == "fen"
main_fen(h, p, F) ==
  IF Raises(F, "get_fen_position")
  THEN Cycle(h, p, TRUE, <<>>, <<"get_fen_position">>, NoCall, NoCall, NoCall)
  ELSE Cycle(h, p, FALSE, <<"FEN">>, <<"get_fen_position">>, NoCall, NoCall, NoCall)

\* Variant of the "hint" branch that plays the suggested move.
main_hint_plays(h, p, best, F) ==
  LET r == engine_reply(h, p, None, best, F)
  IN Cycle(r.h, r.p, r.raised,
           <<IF best # None THEN "Engine suggests: move"
                            ELSE "Engine suggests: (no move)">>,
           r.log, NoCall, NoCall, NoCall)

\* cmd == "hint": best is the engine's answer.
main_hint(h, p, best, F) ==
  IF Raises(F, "get_best_move")
  THEN Cycle(h, p, TRUE, <<>>, <<"get_best_move">>, NoCall, NoCall, NoCall)
  ELSE Cycle(h, p, FALSE,
             <<IF best # None THEN "Engine suggests: move"
                              ELSE "Engine suggests: (no move)">>,
             <<"get_best_move">>, NoCall, NoCall, NoCall)

\* cmd == "go"
main_go(h, p, best, F) ==
  LET r == engine_reply(h, p, None, best, F)
      c == Call(None, h, p, r)
  IN IF r.raised THEN Cycle(r.h, r.p, TRUE, <<>>, r.log, NoCall, NoCall, c)
     ELSE IF r.mv # None
     THEN LET s == show_board(F)
          IN Cycle(r.h, r.p, s.raised, <<"Engine plays:">> \o s.out,
                   r.log \o s.log, NoCall, NoCall, c)
     ELSE Cycle(r.h, r.p, FALSE, <<"Engine has no move (game over?).">>, r.log,
                NoCall, NoCall, c)

\* cmd == "eval"
main_eval(h, p, F) ==
  IF Raises(F, "get_evaluation") /\ ~Caught(F, "get_evaluation")
  THEN Cycle(h, p, TRUE, <<>>, <<"get_evaluation">>, NoCall, NoCall, NoCall)
  ELSE Cycle(h, p, FALSE,
             <<IF Raises(F, "get_evaluation")
               THEN "Your build does not support evaluation output."
               ELSE "Evaluation:">>,
             <<"get_evaluation">>, NoCall, NoCall, NoCall)

\* Variant of the move branch that never asks the engine for its reply.
main_move_no_reply(h, p, m, best, F) ==
  LET a  == apply_move_uci(h, p, m, F)
      ca == Call(m, h, p, a)
  IN IF a.raised THEN Cycle(a.h, a.p, TRUE, <<>>, a.log, ca, NoCall, NoCall)
     ELSE IF ~a.ok
     THEN Cycle(a.h, a.p, FALSE, <<"Invalid input.">>, a.log, ca, NoCall, NoCall)
     ELSE LET s1 == show_board(F)
          IN Cycle(a.h, a.p, s1.raised, s1.out, a.log \o s1.log, ca, NoCall, NoCall)

\* Variant of the move branch that leaves the loop on a rejected move.
main_move_breaks_on_invalid(h, p, m, best, F) ==
  LET a  == apply_move_uci(h, p, m, F)
      ca == Call(m, h, p, a)
  IN IF a.raised THEN Cycle(a.h, a.p, TRUE, <<>>, a.log, ca, NoCall, NoCall)
     ELSE IF ~a.ok
     THEN [Cycle(a.h, a.p, FALSE, <<"Invalid input.">>, a.log, ca, NoCall, NoCall)
             EXCEPT !.pc = "exited"]
     ELSE LET s1 == show_board(F)
          IN IF s1.raised
             THEN Cycle(a.h, a.p, TRUE, s1.out, a.log \o s1.log, ca, NoCall, NoCall)
             ELSE LET r  == engine_reply(a.h, a.p, None, best, F)
                      cr == Call(None, a.h, a.p, r)
                      l1 == a.log \o s1.log \o r.log
                  IN IF r.raised
                     THEN Cycle(r.h, r.p, TRUE, s1.out, l1, ca, NoCall, cr)
                     ELSE IF r.mv # None
                     THEN LET s2 == show_board(F)
                          IN Cycle(r.h, r.p, s2.raised,
                                   s1.out \o <<"Engine replies:">> \o s2.out,
                                   l1 \o s2.log, ca, NoCall, cr)
                     ELSE Cycle(r.h, r.p, FALSE,
                                s1.out \o <<"Engine has no reply (checkmate or draw?).">>,
                                l1, ca, NoCall, cr)

\* Any other input is tried as a UCI move; best is the engine's answer to the
\* best-move query made after an accepted move.
main_move(h, p, m, best, F) ==
  LET a  == apply_move_uci(h, p, m, F)
      ca == Call(m, h, p, a)
  IN IF a.raised THEN Cycle(a.h, a.p, TRUE, <<>>, a.log, ca, NoCall, NoCall)
     ELSE IF ~a.ok
     THEN Cycle(a.h, a.p, FALSE, <<"Invalid input.">>, a.log, ca, NoCall, NoCall)
     ELSE LET s1 == show_board(F)
          IN IF s1.raised
             THEN Cycle(a.h, a.p, TRUE, s1.out, a.log \o s1.log, ca, NoCall, NoCall)
             ELSE LET r  == engine_reply(a.h, a.p, None, best, F)
                      cr == Call(None, a.h, a.p, r)
                      l1 == a.log \o s1.log \o r.log
                  IN IF r.raised
                     THEN Cycle(r.h, r.p, TRUE, s1.out, l1, ca, NoCall, cr)
                     ELSE IF r.mv # None
                     THEN LET s2 == show_board(F)
                          IN Cycle(r.h, r.p, s2.raised,
                                   s1.out \o <<"Engine replies:">> \o s2.out,
                                   l1 \o s2.log, ca, NoCall, cr)
                     ELSE Cycle(r.h, r.p, FALSE,
                                s1.out \o <<"Engine has no reply (checkmate or draw?).">>,
                                l1, ca, NoCall, cr)

\* ----------------------------------------------------------------- actions
Init ==
  /\ moves_history = <<>>
  /\ engine = StartPos
  /\ pc = "start"
  /\ cmd = "<none>"
  /\ uci_move = None
  /\ errors = {}
  /\ pre = [h |-> <<>>, p |-> StartPos]
  /\ out = <<>>
  /\ engine_log = <<>>
  /\ call_apply = NoCall
  /\ call_undo = NoCall
  /\ call_reply = NoCall

\* The state after a cycle that read c (and m when c is not a keyword) while
\* the engine calls end as F says, and that ends as the record r says.
Finish(c, m, F, r) ==
  /\ moves_history' = r.h
  /\ engine' = r.p
  /\ pc' = r.pc
  /\ cmd' = c
  /\ uci_move' = m
  /\ errors' = {e \in {<<r.log[i], F[r.log[i]]>> : i \in DOMAIN r.log} :
                  e[2] # "ok"}
  /\ pre' = [h |-> moves_history, p |-> engine]
  /\ out' = r.out
  /\ engine_log' = r.log
  /\ call_apply' = r.apply
  /\ call_undo' = r.undo
  /\ call_reply' = r.reply

\* main before the loop: banner, help text, board.
Startup(F) ==
  /\ pc = "start"
  /\ Finish("<none>", None, F, main_help(moves_history, engine, F))

\* input() raises EOFError or KeyboardInterrupt: "Exiting", break.
InputEnds ==
  /\ pc = "prompt"
  /\ \E c \in {"EOFError", "KeyboardInterrupt"} :
       Finish(c, None, NoFaults,
              [Cycle(moves_history, engine, FALSE, <<"Exiting">>, <<>>,
                     NoCall, NoCall, NoCall) EXCEPT !.pc = "exited"])

\* cmd in ("exit", "quit", "q"): break.
CmdExit ==
  /\ pc = "prompt"
  /\ \E c \in {"exit", "quit", "q"} :
       Finish(c, None, NoFaults,
              [Cycle(moves_history, engine, FALSE, <<"Thanks for playing!">>,
                     <<>>, NoCall, NoCall, NoCall) EXCEPT !.pc = "exited"])

CmdHelp(F) ==
  /\ pc = "prompt"
  /\ Finish("help", None, F, main_help(moves_history, engine, F))

CmdNew(F) ==
  /\ pc = "prompt"
  /\ Finish("new", None, F, main_new(moves_history, engine, F))

CmdUndo(F) ==
  /\ pc = "prompt"
  /\ Finish("undo", None, F, main_undo(moves_history, engine, F))

CmdFen(F) ==
  /\ pc = "prompt"
  /\ Finish("fen", None, F, main_fen(moves_history, engine, F))

CmdHint(F) ==
  /\ pc = "prompt"
  /\ \E best \in get_best_move(engine) :
       Finish("hint", None, F, main_hint(moves_history, engine, best, F))

CmdGo(F) ==
  /\ pc = "prompt"
  /\ \E best \in get_best_move(engine) :
       Finish("go", None, F, main_go(moves_history, engine, best, F))

CmdEval(F) ==
  /\ pc = "prompt"
  /\ Finish("eval", None, F, main_eval(moves_history, engine, F))

CmdMove(F) ==
  /\ pc = "prompt"
  /\ \E m \in UciInputs :
       \E best \in get_best_move(apply_move_uci(moves_history, engine, m, F).p) :
         Finish("<uci>", m, F, main_move(moves_history, engine, m, best, F))

\* One step of main while the engine calls end as F says.
main(F) ==
  \/ Startup(F)
  \/ InputEnds
  \/ CmdExit
  \/ CmdHelp(F)
  \/ CmdNew(F)
  \/ CmdUndo(F)
  \/ CmdFen(F)
  \/ CmdHint(F)
  \/ CmdGo(F)
  \/ CmdEval(F)
  \/ CmdMove(F)

\* The engine process is alive: only the calls the program guards (board
\* rendering, evaluation: not supported by every build) raise.
Next == \E F \in LiveFaults : main(F)

Spec == Init /\ [][Next]_vars

\* Any engine call may raise: the engine process died, or the user interrupts
\* the call.
NextFault == \E F \in Faults : main(F)

SpecFault == Init /\ [][NextFault]_vars

\* ------------------------------------------------------------------ claims
\* The position reached by replaying a history from the standard starting
\* position, one move after the other.
RECURSIVE Replay(_)
Replay(h) ==
  IF h = <<>> THEN StartPos
  ELSE make_move(Replay(SubSeq(h, 1, Len(h) - 1)), h[Len(h)])

\* The calls of a log that change the engine's position.
Mutating(log) ==
  {i \in DOMAIN log :
     log[i] \in {"make_moves_from_current_position", "set_position"}}

\* How often a log asks the engine for its best move.
Queries(log) == Cardinality({i \in DOMAIN log : log[i] = "get_best_move"})

Printed(msg) == \E i \in DOMAIN out : out[i] = msg

\* Call c raised in the last cycle.
Raised(c) == \E e \in errors : e[1] = c

\* Every error of the last cycle is an Exception of a guarded call.
AllGuarded ==
  \A e \in errors : e[1] \in GuardedCalls /\ e[2] = "Exception"

\* The inputs that end the loop.
ExitInputs == {"exit", "quit", "q", "EOFError", "KeyboardInterrupt"}

\* C1: whenever the loop waits for the next command, the engine's position is
\* the replay of moves_history from the standard starting position.
C1_EngineIsReplayOfHistory ==
  pc = "prompt" => engine = Replay(moves_history)

\* C1 witness: the loop waits again after a successful undo that left moves
\* in the history (incremental moves followed by a full replay).
C1_Witness ==
  /\ pc = "prompt"
  /\ cmd = "undo"
  /\ call_undo.ok
  /\ Len(moves_history) >= 2

\* C2: when the engine reports the input as not legal, apply_move_uci returns
\* False, makes no further engine call, and leaves moves_history and the
\* engine's position as they were.
C2_IllegalMoveRejected ==
  (/\ call_apply.called
   /\ ~Raised("is_move_correct")
   /\ ~is_move_correct(call_apply.p0, call_apply.arg))
  => /\ ~call_apply.raised
     /\ ~call_apply.ok
     /\ call_apply.h1 = call_apply.h0
     /\ call_apply.p1 = call_apply.p0
     /\ call_apply.log = <<"is_move_correct">>
     /\ moves_history = pre.h
     /\ engine = pre.p

\* C2 witness: a well-formed move that is not legal in a position reached by
\* earlier moves was rejected.
C2_Witness ==
  /\ call_apply.called
  /\ call_apply.arg \in Moves
  /\ ~is_move_correct(call_apply.p0, call_apply.arg)
  /\ call_apply.h0 # <<>>
  /\ ~call_apply.ok

\* C3: when the engine reports the move as legal, apply_move_uci returns True,
\* moves_history is the previous history with that one move appended, and the
\* engine's position is the previous one advanced by the move, with the other
\* side to move.
C3_LegalMoveApplied ==
  (call_apply.called /\ is_move_correct(call_apply.p0, call_apply.arg))
  => /\ call_apply.ok
     /\ Len(call_apply.h1) = Len(call_apply.h0) + 1
     /\ SubSeq(call_apply.h1, 1, Len(call_apply.h0)) = call_apply.h0
     /\ call_apply.h1[Len(call_apply.h1)] = call_apply.arg
     /\ call_apply.p1 = make_move(call_apply.p0, call_apply.arg)
     /\ call_apply.p1 # call_apply.p0
     /\ call_apply.p1.side = Other(call_apply.p0.side)

\* C3 witness: a legal move was applied on top of a non-empty history.
C3_Witness ==
  /\ call_apply.called
  /\ call_apply.ok
  /\ call_apply.h0 # <<>>
  /\ call_apply.p0.side = "b"

\* C4: undo_last_halfmove on a non-empty history returns True, removes exactly
\* the last move and sets the engine to the replay of the remaining prefix; on
\* an empty history it returns False and touches neither history nor engine.
C4_UndoRemovesLast ==
  call_undo.called
  => IF call_undo.h0 # <<>>
     THEN /\ call_undo.ok
          /\ Len(call_undo.h1) = Len(call_undo.h0) - 1
          /\ call_undo.h1 = SubSeq(call_undo.h0, 1, Len(call_undo.h0) - 1)
          /\ call_undo.p1 = Replay(call_undo.h1)
          /\ moves_history = call_undo.h1
          /\ engine = call_undo.p1
     ELSE /\ ~call_undo.ok
          /\ call_undo.h1 = <<>>
          /\ call_undo.p1 = call_undo.p0
          /\ call_undo.log = <<>>
          /\ moves_history = <<>>
          /\ engine = pre.p

\* C4 witness: an undo succeeded on a history of two different moves.
C4_Witness ==
  /\ call_undo.called
  /\ call_undo.ok
  /\ Len(call_undo.h0) >= 2
  /\ call_undo.h0[1] # call_undo.h0[Len(call_undo.h0)]

\* C5: after "new", moves_history is empty and the engine is at the standard
\* starting position, whatever they were before.
C5_NewResets ==
  cmd = "new" => (moves_history = <<>> /\ engine = StartPos)

\* C5 witness: "new" was given in the middle of a game.
C5_Witness ==
  /\ cmd = "new"
  /\ pre.h # <<>>
  /\ pre.p # StartPos

\* C6: when the position has no legal move and the best-move query answers
\* none, engine_reply returns None, makes no further engine call and leaves
\* moves_history and the engine's position unchanged, for "go" and for the
\* automatic reply alike.
C6_NoMoveNoChange ==
  (/\ call_reply.called
   /\ Legal(call_reply.p0) = {}
   /\ ~Raised("get_best_move"))
  => /\ cmd \in {"go", "<uci>"}
     /\ ~call_reply.raised
     /\ call_reply.mv = None
     /\ call_reply.h1 = call_reply.h0
     /\ call_reply.p1 = call_reply.p0
     /\ call_reply.log = <<"get_best_move">>
     /\ moves_history = call_reply.h0
     /\ engine = call_reply.p0

\* C6 witness: the user's move ended the game, so the automatic reply found
\* no move.
C6_Witness ==
  /\ cmd = "<uci>"
  /\ call_apply.ok
  /\ call_reply.called
  /\ Legal(call_reply.p0) = {}
  /\ call_reply.mv = None
  /\ pc = "prompt"

\* C7: "hint", "eval", "fen" and "help" change neither moves_history nor the
\* engine's position and make no position-changing engine call, whatever the
\* engine answers; an "eval" whose get_evaluation fails with an Exception
\* prints the unsupported message and the loop reads on.
C7_QueriesChangeNothing ==
  cmd \in {"hint", "eval", "fen", "help"}
  => /\ moves_history = pre.h
     /\ engine = pre.p
     /\ Mutating(engine_log) = {}
     /\ (cmd = "eval" /\ <<"get_evaluation", "Exception">> \in errors)
        => /\ pc = "prompt"
           /\ out = <<"Your build does not support evaluation output.">>

\* C7 witness: a hint was given in a position with a legal move, in the
\* middle of a game.
C7_Witness ==
  /\ cmd = "hint"
  /\ Printed("Engine suggests: move")
  /\ pre.h # <<>>
  /\ pc = "prompt"

\* C8 as stated: every error raised while a command is processed is caught
\* in that cycle and turned into a message, and the loop reads on.
C8_Original ==
  (cmd # "<none>" /\ errors # {}) => (pc = "prompt" /\ out # <<>>)

\* C8 amended: an Exception of get_evaluation or get_board_visual is caught
\* in the command's cycle and turned into a message (the unsupported message,
\* the FEN instead of the board) and the loop reads on; anything raised by
\* another engine call, and a KeyboardInterrupt during any engine call,
\* leaves main and ends the process.
C8_OnlyGuardedCallsAreCaught ==
  cmd # "<none>"
  => /\ AllGuarded
        => /\ pc # "crashed"
           /\ Raised("get_evaluation")
              => Printed("Your build does not support evaluation output.")
           /\ Raised("get_board_visual") => Printed("Current FEN:")
     /\ ~AllGuarded => pc = "crashed"

\* C8 witness: the board could not be rendered after an accepted move and its
\* reply; the FEN was shown instead and the loop waits for the next command.
C8_Witness ==
  /\ cmd = "<uci>"
  /\ call_reply.mv # None
  /\ errors = {<<"get_board_visual", "Exception">>}
  /\ out = <<"Current FEN:", "Engine replies:", "Current FEN:">>
  /\ pc = "prompt"

\* C9: an accepted move is followed in the same cycle by exactly one request
\* for the engine's reply, so the history ends as old + user move + engine
\* move, or old + user move when the engine has none; a rejected move is
\* followed by no request and leaves the history unchanged.
C9_OneReplyPerAcceptedMove ==
  cmd = "<uci>"
  => /\ call_apply.called
     /\ call_apply.h0 = pre.h
     /\ call_apply.arg = uci_move
     /\ IF call_apply.ok
        THEN /\ call_reply.called
             /\ call_reply.h0 = Append(pre.h, uci_move)
             /\ Queries(engine_log) = 1
             /\ IF Legal(call_apply.p1) = {}
                THEN moves_history = Append(pre.h, uci_move)
                ELSE /\ call_reply.mv \in Legal(call_apply.p1)
                     /\ moves_history = pre.h \o <<uci_move, call_reply.mv>>
                     /\ engine = make_move(call_apply.p1, call_reply.mv)
        ELSE /\ ~call_reply.called
             /\ Queries(engine_log) = 0
             /\ moves_history = pre.h

\* C9 witness: a move was accepted in the middle of a game and the engine
\* replied with a move.
C9_Witness ==
  /\ cmd = "<uci>"
  /\ call_apply.ok
  /\ call_reply.mv # None
  /\ pre.h # <<>>
  /\ Len(moves_history) = Len(pre.h) + 2

\* C10 as stated: the loop stops exactly on exit, quit, q or the end of
\* input, leaving history and position untouched; every other input returns
\* it to reading the next command.
C10_Original ==
  cmd # "<none>"
  => /\ pc # "prompt" <=> cmd \in ExitInputs
     /\ pc # "prompt" => (moves_history = pre.h /\ engine = pre.p)

\* C10 amended: the loop breaks exactly on exit, quit, q or the end of input,
\* leaving history and position untouched and asking the engine nothing; every
\* other input returns it to reading the next command unless an engine call
\* raises something other than an Exception of get_evaluation or
\* get_board_visual, which ends the process.
C10_BreaksOnlyOnExitInputs ==
  cmd # "<none>"
  => /\ pc = "exited" <=> cmd \in ExitInputs
     /\ pc = "exited"
        => (moves_history = pre.h /\ engine = pre.p /\ engine_log = <<>>)
     /\ cmd \notin ExitInputs
        => (pc = "prompt" <=> AllGuarded)

\* C10 witness: the alias q ended the loop in the middle of a game.
C10_Witness ==
  /\ pc = "exited"
  /\ cmd = "q"
  /\ moves_history # <<>>
  /\ moves_history = pre.h

====
